---- MODULE Spec2Model ----
(***************************************************************************)
(* A model of the Quake log parser of agstrc/qlp: the divider-terminated   *)
(* parser (ParseLog, logParser, lookingForGameParser, matchParser) and the *)
(* Matches JSON marshaler.                                                 *)
(*                                                                         *)
(* Strings are sequences of one-character strings, so that prefix tests    *)
(* and the byte-wise ordering used by slices.Sort are computed, not        *)
(* assumed.  A log line is a record of its header part and its event       *)
(* payload; an event payload is a record of its leading text and, for the  *)
(* lines that carry them, the three fields the kill expression captures.   *)
(***************************************************************************)
EXTENDS Integers, Sequences, FiniteSets, TLC

\* ------------------------------------------------------------------ bounds
MaxLines == 4
MaxKills == 2

\* ----------------------------------------------------------------- strings
InitGameTok == <<"I","n","i","t","G","a","m","e",":">>
ShutdownTok == <<"S","h","u","t","d","o","w","n","G","a","m","e",":">>
DashTok == <<"-","-","-">>
DividerText == <<"-","-","-","-","-","-">>
KillTok == <<"K","i","l","l",":">>
ConnectText == <<"C","l","i","e","n","t","C","o","n","n","e","c","t",":">>
BadLineText == <<"B","a","d","L","i","n","e">>
Timestamp == <<" "," ","0",":","0","0"," ">>
NoHeader == <<>>

World == <<"<","w","o","r","l","d",">">>
Mocinha == <<"M","o","c","i","n","h","a">>
Zeh == <<"Z","e","h">>
ModRocket == <<"M","O","D","_","R","O","C","K","E","T">>
ModFalling == <<"M","O","D","_","F","A","L","L","I","N","G">>

Names == {World, Mocinha, Zeh}
Means == {ModRocket, ModFalling}

\* byte value of the characters that occur in names
Ord(c) ==
    CASE c = "<" -> 60 [] c = ">" -> 62 [] c = "M" -> 77 [] c = "Z" -> 90
      [] c = "a" -> 97 [] c = "c" -> 99 [] c = "d" -> 100 [] c = "e" -> 101
      [] c = "h" -> 104 [] c = "i" -> 105 [] c = "l" -> 108 [] c = "n" -> 110
      [] c = "o" -> 111 [] c = "r" -> 114 [] c = "w" -> 119

\* strings.HasPrefix
HasPrefix(s, prefix) ==
    /\ Len(s) >= Len(prefix)
    /\ SubSeq(s, 1, Len(prefix)) = prefix

\* byte-wise lexicographic order of two strings (the order of slices.Sort)
RECURSIVE StrLess(_, _)
StrLess(a, b) ==
    IF b = <<>> THEN FALSE
    ELSE IF a = <<>> THEN TRUE
    ELSE IF Ord(Head(a)) < Ord(Head(b)) THEN TRUE
    ELSE IF Ord(Head(a)) > Ord(Head(b)) THEN FALSE
    ELSE StrLess(Tail(a), Tail(b))

\* ------------------------------------------------------------------ inputs
Event(text, killer, killed, killedBy) ==
    [text |-> text, killer |-> killer, killed |-> killed, killedBy |-> killedBy]

InitGameEvent == Event(InitGameTok, <<>>, <<>>, <<>>)
ShutdownGameEvent == Event(ShutdownTok, <<>>, <<>>, <<>>)
DividerEvent == Event(DividerText, <<>>, <<>>, <<>>)
ConnectEvent == Event(ConnectText, <<>>, <<>>, <<>>)
KillEvent(killer, killed, killedBy) == Event(KillTok, killer, killed, killedBy)

KillEvents == {KillEvent(a, b, x) : a \in Names, b \in Names, x \in Means}
Events == {InitGameEvent, ShutdownGameEvent, DividerEvent, ConnectEvent} \cup KillEvents

Line(header, event) == [header |-> header, event |-> event]
BadLine == Line(NoHeader, Event(BadLineText, <<>>, <<>>, <<>>))
Lines == {Line(Timestamp, e) : e \in Events} \cup {BadLine}

\* lineHeaderExpr.FindStringIndex(line) == nil
lineHeaderExprFails(line) == line.header = NoHeader

\* killExpr.FindStringSubmatch(event): the whole match and the three groups,
\* or the empty sequence when the expression does not match
killExprFind(event) ==
    IF /\ HasPrefix(event.text, KillTok)
       /\ event.killer # <<>> /\ event.killed # <<>> /\ event.killedBy # <<>>
    THEN <<event, event.killer, event.killed, event.killedBy>>
    ELSE <<>>

IsKillLine(line) == line.header # NoHeader /\ killExprFind(line.event) # <<>>

\* ------------------------------------------------------------------- state
VARIABLES
    pc,           \* position of the program: "scan", "returned", "marshalled"
    currentLine,  \* ParseLog's line counter
    evParser,     \* logParser.evParser: the current event parser
    matches,      \* logParser.matches: the finalized matches
    maps,         \* the Go maps allocated so far; a map is referred to by its index
    ret,          \* what ParseLog returned: [matches, err]
    out,          \* the bytes written by Matches.MarshalJSON, as a token sequence
    scanner,      \* the bufio.Scanner: "open", "eof" or "failed" (Err() # nil)
    log,          \* history: the lines the scanner has delivered so far
    opened,       \* history: the line at which the open match was opened, or 0
    closed,       \* history: for each finalized match, <<line opened, line closed>>
    currentMatch  \* qlp.go: ParseLog's currentMatch, the matchInfo being filled

vars == <<pc, currentLine, evParser, matches, maps, ret, out, scanner, log, opened, closed,
          currentMatch>>

NoError == <<>>
NoMatchInfo == [type |-> "none"]
NoReturn == [matches |-> <<>>, err |-> <<"pending">>]
EmptyStruct == <<>>

\* Go map operations; a map is a function over the keys it holds
EmptyMap == [k \in {} |-> 0]
MapHas(mp, k) == k \in DOMAIN mp
MapGet(mp, k) == IF k \in DOMAIN mp THEN mp[k] ELSE 0
MapSet(mp, k, v) == [x \in DOMAIN mp \cup {k} |-> IF x = k THEN v ELSE mp[x]]

\* type lookingForGameParser struct{}
lookingForGameParser == [type |-> "lookingForGameParser"]

\* newMatchParser taking again the three maps made last, when there are any
newMatchParserReusesMaps(heap) ==
    IF Len(heap) >= 3
    THEN [m |-> [type |-> "matchParser",
                 totalKills |-> 0,
                 players |-> Len(heap) - 2,
                 kills |-> Len(heap) - 1,
                 killsByMeans |-> Len(heap)],
          maps |-> heap]
    ELSE [m |-> [type |-> "matchParser",
                 totalKills |-> 0,
                 players |-> Len(heap) + 1,
                 kills |-> Len(heap) + 2,
                 killsByMeans |-> Len(heap) + 3],
          maps |-> heap \o <<EmptyMap, EmptyMap, EmptyMap>>]

\* newMatchParser: a matchParser with three freshly made maps
newMatchParser(heap) ==
    [m |-> [type |-> "matchParser",
            totalKills |-> 0,
            players |-> Len(heap) + 1,
            kills |-> Len(heap) + 2,
            killsByMeans |-> Len(heap) + 3],
     maps |-> heap \o <<EmptyMap, EmptyMap, EmptyMap>>]

\* newLogParser
newLogParser == [evParser |-> lookingForGameParser, matches |-> <<>>]

\* registerPlayer without the default entry of 0 in the kills map
registerPlayerNoDefault(m, heap, player) ==
    IF player = World THEN heap
    ELSE [heap EXCEPT ![m.players] = MapSet(@, player, EmptyStruct)]

\* one iteration of the loop of registerKill over [killer, killed]
registerPlayer(m, heap, player) ==
    IF player = World THEN heap
    ELSE LET h1 == IF ~MapHas(heap[m.kills], player)
                   THEN [heap EXCEPT ![m.kills] = MapSet(@, player, 0)]
                   ELSE heap
         IN [h1 EXCEPT ![m.players] = MapSet(@, player, EmptyStruct)]

\* registerKill counting only the kills made by players
registerKillSkipsWorld(m, heap, killer, killed, killedBy) ==
    LET h1 == registerPlayer(m, heap, killer)
        h2 == registerPlayer(m, h1, killed)
        h3 == IF killer = World
              THEN [h2 EXCEPT ![m.kills] = MapSet(@, killed, MapGet(@, killed) - 1)]
              ELSE IF killer # killed
              THEN [h2 EXCEPT ![m.kills] = MapSet(@, killer, MapGet(@, killer) + 1)]
              ELSE h2
        h4 == [h3 EXCEPT ![m.killsByMeans] = MapSet(@, killedBy, MapGet(@, killedBy) + 1)]
    IN [m |-> [m EXCEPT !.totalKills = IF killer = World THEN @ ELSE @ + 1], maps |-> h4]

\* registerKill crediting a self-kill to the killer
registerKillCountsSelfKill(m, heap, killer, killed, killedBy) ==
    LET h1 == registerPlayer(m, heap, killer)
        h2 == registerPlayer(m, h1, killed)
        h3 == IF killer = World
              THEN [h2 EXCEPT ![m.kills] = MapSet(@, killed, MapGet(@, killed) - 1)]
              ELSE [h2 EXCEPT ![m.kills] = MapSet(@, killer, MapGet(@, killer) + 1)]
        h4 == [h3 EXCEPT ![m.killsByMeans] = MapSet(@, killedBy, MapGet(@, killedBy) + 1)]
    IN [m |-> [m EXCEPT !.totalKills = @ + 1], maps |-> h4]

\* registerKill taking 1 from the victim of a player as well
registerKillPenalizesVictim(m, heap, killer, killed, killedBy) ==
    LET h1 == registerPlayer(m, heap, killer)
        h2 == registerPlayer(m, h1, killed)
        h3 == IF killer = World
              THEN [h2 EXCEPT ![m.kills] = MapSet(@, killed, MapGet(@, killed) - 1)]
              ELSE IF killer # killed
              THEN LET h == [h2 EXCEPT ![m.kills] = MapSet(@, killer, MapGet(@, killer) + 1)]
                   IN [h EXCEPT ![m.kills] = MapSet(@, killed, MapGet(@, killed) - 1)]
              ELSE h2
        h4 == [h3 EXCEPT ![m.killsByMeans] = MapSet(@, killedBy, MapGet(@, killedBy) + 1)]
    IN [m |-> [m EXCEPT !.totalKills = @ + 1], maps |-> h4]

\* registerKill counting the cause of the kills made by players only
registerKillMeansOfPlayers(m, heap, killer, killed, killedBy) ==
    LET h1 == registerPlayer(m, heap, killer)
        h2 == registerPlayer(m, h1, killed)
        h3 == IF killer = World
              THEN [h2 EXCEPT ![m.kills] = MapSet(@, killed, MapGet(@, killed) - 1)]
              ELSE IF killer # killed
              THEN [h2 EXCEPT ![m.kills] = MapSet(@, killer, MapGet(@, killer) + 1)]
              ELSE h2
        h4 == IF killer = World THEN h3
              ELSE [h3 EXCEPT ![m.killsByMeans] = MapSet(@, killedBy, MapGet(@, killedBy) + 1)]
    IN [m |-> [m EXCEPT !.totalKills = @ + 1], maps |-> h4]

\* matchParser.registerKill
registerKill(m, heap, killer, killed, killedBy) ==
    LET h1 == registerPlayer(m, heap, killer)
        h2 == registerPlayer(m, h1, killed)
        h3 == IF killer = World
              THEN [h2 EXCEPT ![m.kills] = MapSet(@, killed, MapGet(@, killed) - 1)]
              ELSE IF killer # killed
              THEN [h2 EXCEPT ![m.kills] = MapSet(@, killer, MapGet(@, killer) + 1)]
              ELSE h2
        h4 == [h3 EXCEPT ![m.killsByMeans] = MapSet(@, killedBy, MapGet(@, killedBy) + 1)]
    IN [m |-> [m EXCEPT !.totalKills = @ + 1], maps |-> h4]

\* slices.Sort on strings: insertion of one element into a sorted sequence
RECURSIVE sortInsert(_, _)
sortInsert(sorted, x) ==
    IF sorted = <<>> THEN <<x>>
    ELSE IF StrLess(x, Head(sorted)) THEN <<x>> \o sorted
    ELSE <<Head(sorted)>> \o sortInsert(Tail(sorted), x)

RECURSIVE slicesSort(_)
slicesSort(s) ==
    IF s = <<>> THEN <<>>
    ELSE sortInsert(slicesSort(SubSeq(s, 1, Len(s) - 1)), s[Len(s)])

\* the orders in which a range over a Go map may deliver its keys
RangeOrders(mp) ==
    {s \in [1..Cardinality(DOMAIN mp) -> DOMAIN mp] :
        \A i, j \in DOMAIN s : i # j => s[i] # s[j]}

\* getPlayerList without the call of slices.Sort
getPlayerListUnsorted(order) == order

\* matchParser.getPlayerList, the map range delivering the keys in `order`
getPlayerList(order) == slicesSort(order)

\* lookingForGameParser.parseEvent opening a match on a kill event as well
lfgParseEventOpensOnKill(p, heap, event) ==
    IF ~HasPrefix(event.text, InitGameTok) /\ Len(killExprFind(event)) = 0
    THEN [next |-> p.evParser, matches |-> p.matches, maps |-> heap, err |-> NoError]
    ELSE LET new == newMatchParser(heap)
         IN [next |-> new.m, matches |-> p.matches, maps |-> new.maps, err |-> NoError]

\* lookingForGameParser.parseEvent handing the maps of the match finalized last
\* to the new matchParser
lfgParseEventReusesMaps(p, heap, event) ==
    IF ~HasPrefix(event.text, InitGameTok)
    THEN [next |-> p.evParser, matches |-> p.matches, maps |-> heap, err |-> NoError]
    ELSE LET new == newMatchParser(heap)
         IN IF p.matches = <<>>
            THEN [next |-> new.m, matches |-> p.matches, maps |-> new.maps, err |-> NoError]
            ELSE [next |-> [new.m EXCEPT !.kills = p.matches[Len(p.matches)].Kills,
                                         !.killsByMeans = p.matches[Len(p.matches)].KillsByMeans],
                  matches |-> p.matches, maps |-> new.maps, err |-> NoError]

\* lookingForGameParser.parseEvent
lfgParseEvent(p, heap, event) ==
    IF ~HasPrefix(event.text, InitGameTok)
    THEN [next |-> p.evParser, matches |-> p.matches, maps |-> heap, err |-> NoError]
    ELSE LET new == newMatchParser(heap)
         IN [next |-> new.m, matches |-> p.matches, maps |-> new.maps, err |-> NoError]

\* matchParser.parseEvent failing on an event that is neither divider nor kill
matchParseEventRejectsUnknown(p, heap, event, order) ==
    LET m == p.evParser
    IN IF HasPrefix(event.text, DashTok)
       THEN LET finishedMatch == [TotalKills |-> m.totalKills,
                                  Players |-> getPlayerList(order),
                                  Kills |-> m.kills,
                                  KillsByMeans |-> m.killsByMeans]
            IN [next |-> lookingForGameParser,
                matches |-> Append(p.matches, finishedMatch),
                maps |-> heap, err |-> NoError]
       ELSE LET matchingGroups == killExprFind(event)
            IN IF Len(matchingGroups) = 0
               THEN [next |-> m, matches |-> p.matches, maps |-> heap,
                     err |-> <<"failed to find expected kill event">>]
               ELSE LET reg == registerKill(m, heap, matchingGroups[2],
                                            matchingGroups[3], matchingGroups[4])
                    IN [next |-> reg.m, matches |-> p.matches,
                        maps |-> reg.maps, err |-> NoError]

\* matchParser.parseEvent staying in the match after finalizing it
matchParseEventStaysOpen(p, heap, event, order) ==
    LET m == p.evParser
    IN IF HasPrefix(event.text, DashTok)
       THEN LET finishedMatch == [TotalKills |-> m.totalKills,
                                  Players |-> getPlayerList(order),
                                  Kills |-> m.kills,
                                  KillsByMeans |-> m.killsByMeans]
            IN [next |-> m,
                matches |-> Append(p.matches, finishedMatch),
                maps |-> heap, err |-> NoError]
       ELSE LET matchingGroups == killExprFind(event)
            IN IF Len(matchingGroups) = 0
               THEN [next |-> m, matches |-> p.matches, maps |-> heap, err |-> NoError]
               ELSE LET reg == registerKill(m, heap, matchingGroups[2],
                                            matchingGroups[3], matchingGroups[4])
                    IN [next |-> reg.m, matches |-> p.matches,
                        maps |-> reg.maps, err |-> NoError]

\* matchParser.parseEvent, the range of getPlayerList delivering `order`
matchParseEvent(p, heap, event, order) ==
    LET m == p.evParser
    IN IF HasPrefix(event.text, DashTok)
       THEN LET finishedMatch == [TotalKills |-> m.totalKills,
                                  Players |-> getPlayerList(order),
                                  Kills |-> m.kills,
                                  KillsByMeans |-> m.killsByMeans]
            IN [next |-> lookingForGameParser,
                matches |-> Append(p.matches, finishedMatch),
                maps |-> heap, err |-> NoError]
       ELSE LET matchingGroups == killExprFind(event)
            IN IF Len(matchingGroups) = 0
               THEN [next |-> m, matches |-> p.matches, maps |-> heap, err |-> NoError]
               ELSE LET reg == registerKill(m, heap, matchingGroups[2],
                                            matchingGroups[3], matchingGroups[4])
                    IN [next |-> reg.m, matches |-> p.matches,
                        maps |-> reg.maps, err |-> NoError]

\* the orders the player map of the current parser may be ranged in
PlayerOrders(p, heap) ==
    IF p.evParser.type = "matchParser"
    THEN RangeOrders(heap[p.evParser.players])
    ELSE {<<>>}

\* eventParser.parseEvent: dispatch on the dynamic type of p.evParser
parseEvent(p, heap, event, order) ==
    IF p.evParser.type = "matchParser"
    THEN matchParseEvent(p, heap, event, order)
    ELSE lfgParseEvent(p, heap, event)

\* ----------------------------------------------------------------- actions
NumKillLines(l) == Cardinality({i \in DOMAIN l : IsKillLine(l[i])})

Init ==
    /\ pc = "scan"
    /\ currentLine = 0
    /\ evParser = newLogParser.evParser
    /\ matches = newLogParser.matches
    /\ maps = <<>>
    /\ ret = NoReturn
    /\ out = <<>>
    /\ scanner = "open"
    /\ log = <<>>
    /\ opened = 0
    /\ closed = <<>>
    /\ currentMatch = NoMatchInfo

\* ScanMalformed naming the line by its 0-based index
ScanMalformedZeroIndexed(line) ==
    /\ pc = "scan" /\ scanner = "open"
    /\ Len(log) < MaxLines
    /\ lineHeaderExprFails(line)
    /\ currentLine' = currentLine + 1
    /\ log' = Append(log, line)
    /\ ret' = [matches |-> <<>>, err |-> <<"line %d is malformed", currentLine>>]
    /\ pc' = "returned"
    /\ UNCHANGED <<evParser, matches, maps, out, scanner, opened, closed, currentMatch>>

\* ParseLog: scanner.Scan() delivers a line without a header
ScanMalformed(line) ==
    /\ pc = "scan" /\ scanner = "open"
    /\ Len(log) < MaxLines
    /\ lineHeaderExprFails(line)
    /\ currentLine' = currentLine + 1
    /\ log' = Append(log, line)
    /\ ret' = [matches |-> <<>>, err |-> <<"line %d is malformed", currentLine'>>]
    /\ pc' = "returned"
    /\ UNCHANGED <<evParser, matches, maps, out, scanner, opened, closed, currentMatch>>

\* ParseLog: scanner.Scan() delivers a line with a header; its event is parsed
ScanEvent(line) ==
    /\ pc = "scan" /\ scanner = "open"
    /\ Len(log) < MaxLines
    /\ IsKillLine(line) => NumKillLines(log) < MaxKills
    /\ ~lineHeaderExprFails(line)
    /\ currentLine' = currentLine + 1
    /\ log' = Append(log, line)
    /\ LET p == [evParser |-> evParser, matches |-> matches]
       IN \E order \in PlayerOrders(p, maps) :
            LET r == parseEvent(p, maps, line.event, order)
            IN IF r.err # NoError
               THEN /\ ret' = [matches |-> <<>>,
                               err |-> <<"failed to parse event: %w", r.err>>]
                    /\ pc' = "returned"
                    /\ UNCHANGED <<evParser, matches, maps, opened, closed>>
               ELSE /\ evParser' = r.next
                    /\ matches' = r.matches
                    /\ maps' = r.maps
                    /\ opened' = IF r.next.type # "matchParser" THEN 0
                                 ELSE IF evParser.type # "matchParser" THEN currentLine'
                                 ELSE opened
                    /\ closed' = IF Len(r.matches) > Len(matches)
                                 THEN Append(closed, <<opened, currentLine'>>)
                                 ELSE closed
                    /\ UNCHANGED <<pc, ret>>
    /\ UNCHANGED <<out, scanner, currentMatch>>

\* ParseLog: scanner.Scan() fails with a read error
ScanError ==
    /\ pc = "scan" /\ scanner = "open"
    /\ scanner' = "failed"
    /\ ret' = [matches |-> <<>>, err |-> <<"read error">>]
    /\ pc' = "returned"
    /\ UNCHANGED <<currentLine, evParser, matches, maps, out, log, opened, closed, currentMatch>>

\* EndOfInput returning the finalized matches along with the error
EndOfInputKeepsMatches ==
    /\ pc = "scan" /\ scanner = "open"
    /\ scanner' = "eof"
    /\ ret' = IF evParser.type = "matchParser"
              THEN [matches |-> matches,
                    err |-> <<"log entries ended while a match was still open">>]
              ELSE [matches |-> matches, err |-> NoError]
    /\ pc' = "returned"
    /\ UNCHANGED <<currentLine, evParser, matches, maps, out, log, opened, closed, currentMatch>>

\* ParseLog: the input has ended
EndOfInput ==
    /\ pc = "scan" /\ scanner = "open"
    /\ scanner' = "eof"
    /\ ret' = IF evParser.type = "matchParser"
              THEN [matches |-> <<>>,
                    err |-> <<"log entries ended while a match was still open">>]
              ELSE [matches |-> matches, err |-> NoError]
    /\ pc' = "returned"
    /\ UNCHANGED <<currentLine, evParser, matches, maps, out, log, opened, closed, currentMatch>>

\* json.Marshal of one Match: its four fields, the maps by their contents
jsonMarshal(game, heap) ==
    [total_kills |-> game.TotalKills,
     players |-> game.Players,
     kills |-> heap[game.Kills],
     kills_by_means |-> heap[game.KillsByMeans]]

\* the loop of MarshalJSON labelling the games from 0
RECURSIVE marshalLoopZeroIndexed(_, _, _, _)
marshalLoopZeroIndexed(ms, heap, i, buff) ==
    IF i >= Len(ms) THEN buff
    ELSE LET b1 == Append(buff, [kind |-> "key", text |-> <<"game_", i>>])
             b2 == Append(b1, [kind |-> "value", text |-> jsonMarshal(ms[i + 1], heap)])
             hasNext == i < Len(ms) - 1
             b3 == IF hasNext THEN Append(b2, [kind |-> "rune", text |-> ","]) ELSE b2
         IN marshalLoopZeroIndexed(ms, heap, i + 1, b3)

\* the body of the loop of Matches.MarshalJSON, from index i (0-based) on
RECURSIVE marshalLoop(_, _, _, _)
marshalLoop(ms, heap, i, buff) ==
    IF i >= Len(ms) THEN buff
    ELSE LET b1 == Append(buff, [kind |-> "key", text |-> <<"game_", i + 1>>])
             b2 == Append(b1, [kind |-> "value", text |-> jsonMarshal(ms[i + 1], heap)])
             hasNext == i < Len(ms) - 1
             b3 == IF hasNext THEN Append(b2, [kind |-> "rune", text |-> ","]) ELSE b2
         IN marshalLoop(ms, heap, i + 1, b3)

\* Matches.MarshalJSON
MarshalJSON(ms, heap) ==
    Append(marshalLoop(ms, heap, 0, <<[kind |-> "rune", text |-> "{"]>>),
           [kind |-> "rune", text |-> "}"])

\* main: the matches ParseLog returned without error are marshalled
Marshal ==
    /\ pc = "returned"
    /\ ret.err = NoError
    /\ out' = MarshalJSON(ret.matches, maps)
    /\ pc' = "marshalled"
    /\ UNCHANGED <<currentLine, evParser, matches, maps, ret, scanner, log, opened, closed, currentMatch>>

Next ==
    \/ \E line \in Lines : ScanMalformed(line)
    \/ \E line \in Lines : ScanEvent(line)
    \/ ScanError
    \/ EndOfInput
    \/ Marshal

Spec == Init /\ [][Next]_vars

\* ------------------------------------- the InitGame-delimited parser, qlp.go
InitGameWord == <<"I","n","i","t","G","a","m","e">>
KillWord == <<"K","i","l","l">>

\* a Kill line that lacks the "<killer> killed <victim> by <means>" part
TruncatedKillEvent == Event(KillTok, <<>>, <<>>, <<>>)
QlpLines == Lines \cup {Line(Timestamp, TruncatedKillEvent)}

\* eventExpr.FindStringSubmatch(line): the whole match and the event name, or
\* the empty sequence; the expression is anchored on the timestamp
eventExprFind(line) ==
    IF line.header # Timestamp THEN <<>>
    ELSE IF HasPrefix(line.event.text, InitGameWord) THEN <<line, InitGameWord>>
    ELSE IF HasPrefix(line.event.text, KillWord) THEN <<line, KillWord>>
    ELSE <<>>

\* killExpr.FindStringSubmatch(line) of qlp.go, on the whole line
qlpKillExprFind(line) ==
    IF /\ line.header = Timestamp
       /\ HasPrefix(line.event.text, KillTok)
       /\ line.event.killer # <<>> /\ line.event.killed # <<>>
       /\ line.event.killedBy # <<>>
    THEN <<line, line.event.killer, line.event.killed, line.event.killedBy>>
    ELSE <<>>

\* newMatchInfo
newMatchInfo(heap) ==
    [m |-> [type |-> "matchInfo",
            totalKills |-> 0,
            players |-> Len(heap) + 1,
            kills |-> Len(heap) + 2,
            killsByMeans |-> Len(heap) + 3],
     maps |-> heap \o <<EmptyMap, EmptyMap, EmptyMap>>]

\* one iteration of the loop of registerKillEvent over [killer, killed]
registerKillEventPlayer(m, heap, player) ==
    IF player = World THEN heap
    ELSE LET h1 == [heap EXCEPT ![m.players] = MapSet(@, player, EmptyStruct)]
         IN IF ~MapHas(h1[m.kills], player)
            THEN [h1 EXCEPT ![m.kills] = MapSet(@, player, 0)]
            ELSE h1

\* matchInfo.registerKillEvent; it leaves m.totalKills as it is
registerKillEvent(m, heap, killer, killed, means) ==
    LET h1 == registerKillEventPlayer(m, heap, killer)
        h2 == registerKillEventPlayer(m, h1, killed)
        h3 == IF killer = World
              THEN [h2 EXCEPT ![m.kills] = MapSet(@, killed, MapGet(@, killed) - 1)]
              ELSE [h2 EXCEPT ![m.kills] = MapSet(@, killer, MapGet(@, killer) + 1)]
        h4 == [h3 EXCEPT ![m.killsByMeans] = MapSet(@, means, MapGet(@, means) + 1)]
    IN [m |-> m, maps |-> h4]

\* matchInfo.getPlayerList: the keys in the order the map range delivers them
qlpGetPlayerList(order) == order

\* the Match literal ParseLog builds from currentMatch
qlpMatchOf(m, order) ==
    [TotalKills |-> m.totalKills,
     Players |-> qlpGetPlayerList(order),
     Kills |-> m.kills,
     KillsByMeans |-> m.killsByMeans]

QlpInit ==
    /\ pc = "skip"
    /\ currentLine = 0
    /\ evParser = lookingForGameParser
    /\ matches = <<>>
    /\ maps = <<>>
    /\ ret = NoReturn
    /\ out = <<>>
    /\ scanner = "open"
    /\ log = <<>>
    /\ opened = 0
    /\ closed = <<>>
    /\ currentMatch = NoMatchInfo

QlpMayDeliver(line) ==
    /\ scanner = "open"
    /\ Len(log) < MaxLines
    /\ qlpKillExprFind(line) # <<>> => NumKillLines(log) < MaxKills

\* skipInitGameEvent: one line is scanned; a line eventExpr matches ends the
\* skipping, and ParseLog makes the first matchInfo
QlpSkipLine(line) ==
    /\ pc = "skip"
    /\ QlpMayDeliver(line)
    /\ log' = Append(log, line)
    /\ IF eventExprFind(line) # <<>>
       THEN LET new == newMatchInfo(maps)
            IN /\ currentMatch' = new.m
               /\ maps' = new.maps
               /\ opened' = Len(log')
               /\ pc' = "scan"
       ELSE UNCHANGED <<currentMatch, maps, opened, pc>>
    /\ UNCHANGED <<currentLine, evParser, matches, ret, out, scanner, closed>>

\* skipInitGameEvent reaches the end of the input: ParseLog makes a matchInfo,
\* its loop does not run, and the empty match is appended and returned
QlpSkipEnd ==
    /\ pc = "skip" /\ scanner = "open"
    /\ scanner' = "eof"
    /\ LET new == newMatchInfo(maps)
       IN /\ currentMatch' = new.m
          /\ maps' = new.maps
          /\ matches' = Append(matches, qlpMatchOf(new.m, <<>>))
    /\ closed' = Append(closed, <<Len(log), Len(log) + 1>>)
    /\ ret' = [matches |-> matches', err |-> NoError]
    /\ pc' = "returned"
    /\ UNCHANGED <<currentLine, evParser, out, log, opened>>

\* skipInitGameEvent fails with a read error
QlpSkipError ==
    /\ pc = "skip" /\ scanner = "open"
    /\ scanner' = "failed"
    /\ ret' = [matches |-> <<>>, err |-> <<"failed to read log file: %w", <<"read error">>>>]
    /\ pc' = "returned"
    /\ UNCHANGED <<currentLine, evParser, matches, maps, out, log, opened, closed, currentMatch>>

\* the loop of ParseLog scans a line: skipped, an InitGame that finalizes the
\* current match and starts the next, or a Kill that is registered
QlpScanLine(line) ==
    /\ pc = "scan"
    /\ QlpMayDeliver(line)
    /\ LET matched == eventExprFind(line)
       IN matched # <<>> /\ matched[2] = KillWord => qlpKillExprFind(line) # <<>>
    /\ log' = Append(log, line)
    /\ LET matched == eventExprFind(line)
       IN IF Len(matched) = 0
          THEN UNCHANGED <<currentMatch, maps, matches, opened, closed>>
          ELSE IF matched[2] = InitGameWord
          THEN \E order \in RangeOrders(maps[currentMatch.players]) :
                 LET new == newMatchInfo(maps)
                 IN /\ matches' = Append(matches, qlpMatchOf(currentMatch, order))
                    /\ currentMatch' = new.m
                    /\ maps' = new.maps
                    /\ closed' = Append(closed, <<opened, Len(log')>>)
                    /\ opened' = Len(log')
          ELSE LET killEvent == qlpKillExprFind(line)
                   reg == registerKillEvent(currentMatch, maps, killEvent[2],
                                            killEvent[3], killEvent[4])
               IN /\ currentMatch' = reg.m
                  /\ maps' = reg.maps
                  /\ UNCHANGED <<matches, opened, closed>>
    /\ UNCHANGED <<pc, currentLine, evParser, ret, out, scanner>>

\* the loop of ParseLog scans a Kill line that killExpr does not match
QlpScanBadKill(line) ==
    /\ pc = "scan"
    /\ QlpMayDeliver(line)
    /\ LET matched == eventExprFind(line)
       IN matched # <<>> /\ matched[2] = KillWord /\ qlpKillExprFind(line) = <<>>
    /\ log' = Append(log, line)
    /\ ret' = [matches |-> <<>>,
               err |-> <<"failed to find expected kill event at line %s", line>>]
    /\ pc' = "returned"
    /\ UNCHANGED <<currentLine, evParser, matches, maps, out, scanner, opened, closed,
                   currentMatch>>

\* the loop of ParseLog ends at the end of the input: the last match is
\* appended and the matches are returned
QlpEndOfInput ==
    /\ pc = "scan" /\ scanner = "open"
    /\ scanner' = "eof"
    /\ \E order \in RangeOrders(maps[currentMatch.players]) :
         matches' = Append(matches, qlpMatchOf(currentMatch, order))
    /\ closed' = Append(closed, <<opened, Len(log) + 1>>)
    /\ ret' = [matches |-> matches', err |-> NoError]
    /\ pc' = "returned"
    /\ UNCHANGED <<currentLine, evParser, maps, out, log, opened, currentMatch>>

\* the loop of ParseLog ends on a read error: the last match is appended,
\* then the error is returned without the matches
QlpScanError ==
    /\ pc = "scan" /\ scanner = "open"
    /\ scanner' = "failed"
    /\ \E order \in RangeOrders(maps[currentMatch.players]) :
         matches' = Append(matches, qlpMatchOf(currentMatch, order))
    /\ closed' = Append(closed, <<opened, Len(log) + 1>>)
    /\ ret' = [matches |-> <<>>, err |-> <<"failed to read log file: %w", <<"read error">>>>]
    /\ pc' = "returned"
    /\ UNCHANGED <<currentLine, evParser, maps, out, log, opened, currentMatch>>

QlpNext ==
    \/ \E line \in QlpLines : QlpSkipLine(line)
    \/ QlpSkipEnd
    \/ QlpSkipError
    \/ \E line \in QlpLines : QlpScanLine(line)
    \/ \E line \in QlpLines : QlpScanBadKill(line)
    \/ QlpEndOfInput
    \/ QlpScanError
    \/ Marshal

QlpSpec == QlpInit /\ [][QlpNext]_vars

\* ------------------------------------------------- vocabulary of the claims
Last(l) == l[Len(l)]
HasHeader(line) == ~lineHeaderExprFails(line)
IsInitLine(line) == HasHeader(line) /\ HasPrefix(line.event.text, InitGameTok)
IsShutdownLine(line) == HasHeader(line) /\ HasPrefix(line.event.text, ShutdownTok)
IsDividerLine(line) == HasHeader(line) /\ HasPrefix(line.event.text, DashTok)
IsEndBoundaryLine(line) == IsShutdownLine(line) \/ IsDividerLine(line)

IsOpen == evParser.type = "matchParser"
\* a step of the scan loop that delivers one more line
Delivers == pc = "scan" /\ Len(log') = Len(log) + 1
\* the maps of the open accumulator, before and after a step
OpenKills == maps[evParser.kills]
OpenPlayers == maps[evParser.players]
OpenMeans == maps[evParser.killsByMeans]
SameAccumulator ==
    /\ evParser'.type = "matchParser"
    /\ evParser'.kills = evParser.kills
    /\ evParser'.players = evParser.players
    /\ evParser'.killsByMeans = evParser.killsByMeans

\* the kill lines among the lines from..to of a log
KillLinesIn(l, from, to) == {j \in from..to : j \in DOMAIN l /\ IsKillLine(l[j])}
\* the names other than the sentinel seen as killer or victim in those lines
PlayersSeenIn(l, from, to) ==
    {n \in Names \ {World} :
        \E j \in KillLinesIn(l, from, to) : n \in {l[j].event.killer, l[j].event.killed}}
Range(f) == {f[x] : x \in DOMAIN f}

\* a log made of well-formed sessions: (InitGame, kill*, Shutdown-or-divider)*
RECURSIVE WellFormedSessions(_, _)
WellFormedSessions(l, open) ==
    IF l = <<>> THEN ~open
    ELSE IF ~open THEN IsInitLine(Head(l)) /\ WellFormedSessions(Tail(l), TRUE)
    ELSE \/ IsKillLine(Head(l)) /\ WellFormedSessions(Tail(l), TRUE)
         \/ IsEndBoundaryLine(Head(l)) /\ WellFormedSessions(Tail(l), FALSE)

InitLinesOf(l) == {j \in DOMAIN l : IsInitLine(l[j])}
\* the line of the i-th InitGame of a log, and the line of the terminator after it
NthInit(l, i) == CHOOSE j \in InitLinesOf(l) : Cardinality({k \in InitLinesOf(l) : k < j}) = i - 1
EndAfter(l, j) == CHOOSE e \in j..Len(l) :
    IsEndBoundaryLine(l[e]) /\ \A k \in j..(e - 1) : ~IsEndBoundaryLine(l[k])

\* --------------------------------------------------------------------- C1
\* C1: when the log is N well-formed sessions (InitGame, kills, then a
\* ShutdownGame or a divider) and the input ends, ParseLog succeeds with
\* exactly N matches, the i-th holding the statistics of the i-th session.
C1_SessionsYieldMatches ==
    (pc # "scan" /\ scanner = "eof" /\ WellFormedSessions(log, FALSE)) =>
        /\ ret.err = NoError
        /\ Len(ret.matches) = Cardinality(InitLinesOf(log))
        /\ \A i \in 1..Len(ret.matches) :
            LET from == NthInit(log, i)
                to == EndAfter(log, from)
            IN /\ ret.matches[i].TotalKills = Cardinality(KillLinesIn(log, from, to))
               /\ Range(ret.matches[i].Players) = PlayersSeenIn(log, from, to)

\* --------------------------------------------------------------------- C2
\* C2: in MatchOpen an end boundary (ShutdownGame or divider) finalizes the
\* accumulator: the output grows by exactly one match, built from the
\* accumulator, and the state becomes LookingForMatch.
C2_EndBoundaryFinalizes ==
    [][(Delivers /\ IsOpen /\ IsEndBoundaryLine(Last(log'))) =>
        /\ evParser'.type = "lookingForGameParser"
        /\ Len(matches') = Len(matches) + 1
        /\ SubSeq(matches', 1, Len(matches)) = matches
        /\ Last(matches').TotalKills = evParser.totalKills
        /\ Last(matches').Kills = evParser.kills
        /\ Last(matches').KillsByMeans = evParser.killsByMeans]_vars

\* --------------------------------------------------------------------- C3
\* C3: when the input ends without read error while a match is open, ParseLog
\* returns the unterminated-match error and no matches, however many matches
\* were finalized before.
C3_UnterminatedMatch ==
    (pc # "scan" /\ scanner = "eof" /\ IsOpen) =>
        /\ ret.err = <<"log entries ended while a match was still open">>
        /\ Len(ret.matches) = 0

C3_Witness ==
    /\ pc # "scan" /\ scanner = "eof" /\ IsOpen
    /\ Len(matches) >= 1

\* --------------------------------------------------------------------- C4
\* C4: if line k is the first line without a header, ParseLog stops at it,
\* returns the error naming exactly k and no matches, whatever the state and
\* the matches finalized before; no later line is processed.
MalformedLinesOf(l) == {k \in DOMAIN l : lineHeaderExprFails(l[k])}
FirstMalformed(l) == CHOOSE k \in MalformedLinesOf(l) : \A j \in MalformedLinesOf(l) : k <= j

C4_MalformedLine ==
    (MalformedLinesOf(log) # {}) =>
        LET k == FirstMalformed(log)
        IN /\ pc = "returned"
           /\ Len(log) = k
           /\ ret.err = <<"line %d is malformed", k>>
           /\ Len(ret.matches) = 0

C4_Witness ==
    /\ MalformedLinesOf(log) # {}
    /\ FirstMalformed(log) = 4
    /\ Len(matches) >= 1
    /\ IsOpen

\* --------------------------------------------------------------------- C5
\* C5: in an open match a kill "A killed B by X", A and B distinct and
\* neither the sentinel, adds 1 to kills[A], to killsByMeans[X] and to
\* totalKills, puts A and B in the player set, leaves B with a kills entry
\* (0 if new, else unchanged), and changes no other differential.
C5_PlayerKill ==
    [][(Delivers /\ IsOpen /\ IsKillLine(Last(log'))
          /\ Last(log').event.killer # Last(log').event.killed
          /\ Last(log').event.killer # World /\ Last(log').event.killed # World) =>
        LET A == Last(log').event.killer
            B == Last(log').event.killed
            X == Last(log').event.killedBy
        IN /\ SameAccumulator
           /\ evParser'.totalKills = evParser.totalKills + 1
           /\ MapHas(OpenKills', A) /\ OpenKills'[A] = MapGet(OpenKills, A) + 1
           /\ MapHas(OpenKills', B) /\ OpenKills'[B] = MapGet(OpenKills, B)
           /\ MapHas(OpenMeans', X) /\ OpenMeans'[X] = MapGet(OpenMeans, X) + 1
           /\ {A, B} \subseteq DOMAIN OpenPlayers'
           /\ DOMAIN OpenKills' = DOMAIN OpenKills \cup {A, B}
           /\ \A q \in DOMAIN OpenKills \ {A, B} : OpenKills'[q] = OpenKills[q]]_vars

C5_Witness ==
    /\ IsOpen /\ pc = "scan" /\ Len(log) >= 3
    /\ IsKillLine(Last(log)) /\ IsKillLine(log[Len(log) - 1])
    /\ opened < Len(log) - 1
    /\ Last(log).event.killer = Zeh /\ Last(log).event.killed = Mocinha
    /\ OpenKills[Mocinha] = -1 /\ OpenKills[Zeh] = 1

\* --------------------------------------------------------------------- C6
\* C6: in an open match a kill by the sentinel of a victim P takes 1 from
\* kills[P] (to -1 when P is new), changes no other differential, and makes
\* no entry for the sentinel in the kills map or the player set, for every
\* victim name P.
C6_WorldKill ==
    [][(Delivers /\ IsOpen /\ IsKillLine(Last(log'))
          /\ Last(log').event.killer = World) =>
        LET P == Last(log').event.killed
        IN /\ SameAccumulator
           /\ MapHas(OpenKills', P) /\ OpenKills'[P] = MapGet(OpenKills, P) - 1
           /\ \A q \in DOMAIN OpenKills \ {P} : OpenKills'[q] = OpenKills[q]
           /\ DOMAIN OpenKills' \ {P} = DOMAIN OpenKills \ {P}
           /\ World \in DOMAIN OpenKills' => World \in DOMAIN OpenKills
           /\ World \in DOMAIN OpenPlayers' => World \in DOMAIN OpenPlayers]_vars

\* --------------------------------------------------------------------- C7
\* C7: in every finalized match totalKills is the number of kill events
\* processed while that match was open, environment kills and self-kills
\* included.
C7_TotalKills ==
    /\ Len(closed) = Len(matches)
    /\ \A i \in 1..Len(matches) :
        matches[i].TotalKills = Cardinality(KillLinesIn(log, closed[i][1], closed[i][2]))

C7_Witness ==
    \E i \in 1..Len(matches) :
        /\ matches[i].TotalKills = 2
        /\ \E j, k \in KillLinesIn(log, closed[i][1], closed[i][2]) :
            /\ log[j].event.killer = World
            /\ log[k].event.killer = log[k].event.killed /\ log[k].event.killer # World
        /\ KillLinesIn(log, 1, Len(log)) = KillLinesIn(log, closed[i][1], closed[i][2])

\* --------------------------------------------------------------------- C8
\* C8: in every finalized match and in the open accumulator the keys of the
\* kills map are exactly the players, so len(players) = len(kills), the
\* killer and the victim ranging over the player names and the sentinel.
C8_KillsKeysArePlayers ==
    /\ \A i \in 1..Len(matches) :
        /\ DOMAIN maps[matches[i].Kills] = Range(matches[i].Players)
        /\ Cardinality(DOMAIN maps[matches[i].Kills]) = Len(matches[i].Players)
    /\ IsOpen => DOMAIN OpenKills = DOMAIN OpenPlayers

\* --------------------------------------------------------------------- C9
\* C9: the players of every finalized match are in ascending order, without
\* duplicate, and are exactly the names other than the sentinel seen as
\* killer or victim during that match.
C9_PlayersSorted ==
    /\ Len(closed) = Len(matches)
    /\ \A i \in 1..Len(matches) :
        LET players == matches[i].Players
        IN /\ \A j \in 1..(Len(players) - 1) : StrLess(players[j], players[j + 1])
           /\ Range(players) = PlayersSeenIn(log, closed[i][1], closed[i][2])

C9_Witness ==
    \E i \in 1..Len(matches) :
        /\ matches[i].Players = <<Mocinha, Zeh>>
        /\ \E j \in KillLinesIn(log, closed[i][1], closed[i][2]) :
            log[j].event.killer = Zeh /\ log[j].event.killed = Mocinha

\* -------------------------------------------------------------------- C10
\* C10: marshalling N matches writes one object whose keys are, in order,
\* game_1 .. game_N, the key game_i followed by the i-th match; for N = 0
\* the object is empty.
KeysOf(buff) == SelectSeq(buff, LAMBDA t : t.kind = "key")
LBrace == [kind |-> "rune", text |-> "{"]
RBrace == [kind |-> "rune", text |-> "}"]
Comma == [kind |-> "rune", text |-> ","]

C10_GameKeys ==
    (pc = "marshalled") =>
        LET N == Len(ret.matches)
        IN /\ Len(KeysOf(out)) = N
           /\ \A i \in 1..N : KeysOf(out)[i].text = <<"game_", i>>
           /\ Len(out) = IF N = 0 THEN 2 ELSE 3 * N + 1
           /\ out[1] = LBrace /\ out[Len(out)] = RBrace
           /\ \A i \in 1..N :
                /\ out[3 * i - 1].kind = "key"
                /\ out[3 * i] = [kind |-> "value", text |-> jsonMarshal(ret.matches[i], maps)]
                /\ i < N => out[3 * i + 1] = Comma

C10_Witness ==
    /\ pc = "marshalled"
    /\ Len(ret.matches) = 2
    /\ ret.matches[1].Kills # ret.matches[2].Kills

\* -------------------------------------------------------------------- C12
\* C12: in an open match a self-kill (killer = victim, not the sentinel)
\* changes no differential: the player gets a kills entry of 0 if new and
\* keeps its value otherwise, while totalKills and the count of the cause
\* each grow by 1.
C12_SelfKill ==
    [][(Delivers /\ IsOpen /\ IsKillLine(Last(log'))
          /\ Last(log').event.killer = Last(log').event.killed
          /\ Last(log').event.killer # World) =>
        LET A == Last(log').event.killer
            X == Last(log').event.killedBy
        IN /\ SameAccumulator
           /\ evParser'.totalKills = evParser.totalKills + 1
           /\ MapHas(OpenMeans', X) /\ OpenMeans'[X] = MapGet(OpenMeans, X) + 1
           /\ \A c \in DOMAIN OpenMeans' \ {X} : MapHas(OpenMeans, c) /\ OpenMeans'[c] = OpenMeans[c]
           /\ DOMAIN OpenKills' = DOMAIN OpenKills \cup {A}
           /\ OpenKills'[A] = MapGet(OpenKills, A)
           /\ \A q \in DOMAIN OpenKills : OpenKills'[q] = OpenKills[q]
           /\ A \in DOMAIN OpenPlayers']_vars

C12_Witness ==
    /\ IsOpen /\ pc = "scan" /\ Len(log) >= 3
    /\ IsKillLine(Last(log)) /\ IsKillLine(log[Len(log) - 1])
    /\ opened < Len(log) - 1
    /\ Last(log).event.killer = Zeh /\ Last(log).event.killed = Zeh
    /\ OpenKills[Zeh] = 1 /\ evParser.totalKills = 2

\* -------------------------------------------------------------------- C13
\* C13: in every finalized match, for every player P of the match, kills[P]
\* is the number of kill events of the match in which P killed someone other
\* than P, minus the number in which the sentinel killed P; being killed by
\* another player does not count.
KillsBy(l, from, to, P) ==
    Cardinality({j \in KillLinesIn(l, from, to) :
        l[j].event.killer = P /\ l[j].event.killed # P})
KillsByWorldOf(l, from, to, P) ==
    Cardinality({j \in KillLinesIn(l, from, to) :
        l[j].event.killer = World /\ l[j].event.killed = P})

KillsWithMeans(l, from, to, c) ==
    Cardinality({j \in KillLinesIn(l, from, to) : l[j].event.killedBy = c})

C14_KillsByMeans ==
    /\ Len(closed) = Len(matches)
    /\ \A i \in 1..Len(matches) :
        \A c \in Means :
            /\ MapGet(maps[matches[i].KillsByMeans], c)
                 = KillsWithMeans(log, closed[i][1], closed[i][2], c)
            /\ MapHas(maps[matches[i].KillsByMeans], c)
                 <=> KillsWithMeans(log, closed[i][1], closed[i][2], c) > 0

C14_Witness ==
    \E i \in 1..Len(matches) :
        /\ maps[matches[i].KillsByMeans] = [c \in {ModRocket} |-> 2]
        /\ \E j, k \in KillLinesIn(log, closed[i][1], closed[i][2]) :
            /\ log[j].event.killer = World
            /\ log[k].event.killer = log[k].event.killed /\ log[k].event.killer # World

\* -------------------------------------------------------------------- C15
\* C15: in LookingForMatch an event other than a match start (a kill, a
\* divider, a shutdown, an irrelevant payload) leaves the state, the output
\* and the maps as they are, creates no accumulator and raises no error; the
\* line belongs to no match.
C15_InertWhileLooking ==
    [][(Delivers /\ ~IsOpen /\ HasHeader(Last(log')) /\ ~IsInitLine(Last(log'))) =>
        /\ evParser' = lookingForGameParser
        /\ matches' = matches
        /\ maps' = maps
        /\ pc' = "scan" /\ ret' = ret
        /\ opened' = 0 /\ closed' = closed
        /\ \A i \in 1..Len(closed') : Len(log') \notin closed'[i][1]..closed'[i][2]]_vars

C15_Witness ==
    /\ ~IsOpen /\ pc = "scan" /\ Len(log) = 4
    /\ IsKillLine(log[1]) /\ IsInitLine(log[2]) /\ IsDividerLine(log[3])
    /\ IsKillLine(log[4])
    /\ Len(matches) = 1 /\ matches[1].TotalKills = 0

\* -------------------------------------------------------------------- C16
\* C16: the initial state is LookingForMatch with no match; there an InitGame
\* event moves to MatchOpen with a new accumulator whose totalKills is 0 and
\* whose three maps are new and empty, and leaves the output and the maps of
\* the finalized matches unchanged.
C16_FreshAccumulator ==
    /\ evParser = lookingForGameParser /\ matches = <<>>
    /\ [][(Delivers /\ ~IsOpen /\ IsInitLine(Last(log'))) =>
            /\ evParser'.type = "matchParser"
            /\ evParser'.totalKills = 0
            /\ maps'[evParser'.players] = EmptyMap
            /\ maps'[evParser'.kills] = EmptyMap
            /\ maps'[evParser'.killsByMeans] = EmptyMap
            /\ Cardinality({evParser'.players, evParser'.kills, evParser'.killsByMeans}) = 3
            /\ \A ref \in {evParser'.players, evParser'.kills, evParser'.killsByMeans} :
                 /\ ref \notin DOMAIN maps
                 /\ \A i \in 1..Len(matches') :
                      ref \notin {matches'[i].Kills, matches'[i].KillsByMeans}
            /\ SubSeq(maps', 1, Len(maps)) = maps
            /\ matches' = matches
            /\ pc' = "scan"]_vars

C16_Witness ==
    /\ IsOpen /\ pc = "scan" /\ opened = Len(log) /\ opened = 4
    /\ Len(matches) = 1 /\ matches[1].TotalKills = 1
    /\ evParser.totalKills = 0 /\ OpenKills = EmptyMap

\* -------------------------------------------------------------------- C17
\* C17: a match, once appended, is never changed by a later step: its
\* totalKills, players, kills map and killsByMeans map stay as they are, and
\* the output only grows by appending.
C17_FinalizedIsFrozen ==
    [][/\ Len(matches') >= Len(matches)
       /\ \A i \in 1..Len(matches) :
            /\ matches'[i] = matches[i]
            /\ maps'[matches'[i].Kills] = maps[matches[i].Kills]
            /\ maps'[matches'[i].KillsByMeans] = maps[matches[i].KillsByMeans]]_vars

C17_Witness ==
    /\ IsOpen /\ pc = "scan" /\ Len(matches) = 1
    /\ evParser.totalKills = 1
    /\ IsKillLine(Last(log)) /\ closed[1][2] < Len(log)
    /\ OpenKills # EmptyMap
    /\ maps[matches[1].Kills] # OpenKills

\* -------------------------------------------------------------------- C18
\* C18: in MatchOpen an event that is neither a boundary (InitGame,
\* ShutdownGame, divider) nor a kill is skipped without error: the state
\* stays MatchOpen with the same accumulator and the same maps, and the
\* output is unchanged.
C18_IrrelevantWhileOpen ==
    [][(Delivers /\ IsOpen /\ HasHeader(Last(log'))
          /\ ~IsInitLine(Last(log')) /\ ~IsEndBoundaryLine(Last(log'))
          /\ ~IsKillLine(Last(log'))) =>
        /\ evParser' = evParser
        /\ maps' = maps
        /\ matches' = matches
        /\ pc' = "scan" /\ ret' = ret]_vars

C18_Witness ==
    /\ IsOpen /\ pc = "scan" /\ Len(log) >= 4
    /\ HasHeader(Last(log)) /\ Last(log).event = ConnectEvent
    /\ evParser.totalKills = 2
    /\ Cardinality(DOMAIN OpenKills) = 2

\* -------------------------------------------------------------------- C20
\* C20: in every reachable state the finalized matches are at most the
\* accumulators opened, which are at most the InitGame events seen, and at
\* most the divider events seen; the state is MatchOpen exactly when the
\* accumulators opened exceed the finalized matches by one, and otherwise
\* the two numbers are equal; at most one accumulator is open.
AccumulatorsOpened == Len(maps) \div 3
DividerLinesOf(l) == {j \in DOMAIN l : IsDividerLine(l[j])}
\* the accumulators, by the index of their kills map, that no match holds
OpenAccumulators ==
    {k \in 1..AccumulatorsOpened :
        \A i \in 1..Len(matches) : matches[i].Kills # 3 * k - 1}

C20_Counts ==
    /\ Len(maps) % 3 = 0
    /\ Len(matches) <= AccumulatorsOpened
    /\ AccumulatorsOpened <= Cardinality(InitLinesOf(log))
    /\ Len(matches) <= Cardinality(DividerLinesOf(log))
    /\ IsOpen <=> AccumulatorsOpened = Len(matches) + 1
    /\ ~IsOpen <=> AccumulatorsOpened = Len(matches)
    /\ Cardinality(OpenAccumulators) <= 1
    /\ IsOpen => OpenAccumulators = {AccumulatorsOpened} /\ evParser.kills = Len(maps) - 1
    /\ ~IsOpen => OpenAccumulators = {}

C20_Witness ==
    /\ IsOpen /\ Len(matches) = 1 /\ AccumulatorsOpened = 2
    /\ Cardinality(InitLinesOf(log)) = 2
    /\ Cardinality(DividerLinesOf(log)) = 2

\* -------------------------------------------------------------------- C11
\* C11 (qlp.go): in every match ParseLog returns, TotalKills is the number of
\* Kill events registered between the delimiters of that match, environment
\* kills included.
QlpKillLinesIn(l, from, to) ==
    {j \in from..to : j \in DOMAIN l /\ qlpKillExprFind(l[j]) # <<>>}

C11_QlpTotalKills ==
    (pc # "skip" /\ pc # "scan" /\ ret.err = NoError) =>
        /\ Len(closed) = Len(ret.matches)
        /\ \A i \in 1..Len(ret.matches) :
            ret.matches[i].TotalKills
                = Cardinality(QlpKillLinesIn(log, closed[i][1] + 1, closed[i][2] - 1))

\* -------------------------------------------------------------------- C19
\* C19 (qlp.go): for a log with at least one InitGame event, a successful
\* ParseLog returns as many matches as the log has InitGame events, the i-th
\* holding the kills that follow the i-th InitGame.
QlpInitLinesOf(l) ==
    {j \in DOMAIN l : eventExprFind(l[j]) # <<>> /\ eventExprFind(l[j])[2] = InitGameWord}
QlpNthInit(l, i) ==
    CHOOSE j \in QlpInitLinesOf(l) : Cardinality({k \in QlpInitLinesOf(l) : k < j}) = i - 1
\* the line of the InitGame after line j, or the line after the last
QlpNextInit(l, j) ==
    IF \E k \in QlpInitLinesOf(l) : k > j
    THEN CHOOSE k \in QlpInitLinesOf(l) :
            k > j /\ \A k2 \in QlpInitLinesOf(l) : k2 > j => k <= k2
    ELSE Len(l) + 1

C19_QlpOneMatchPerInitGame ==
    (pc # "skip" /\ pc # "scan" /\ ret.err = NoError /\ QlpInitLinesOf(log) # {}) =>
        /\ Len(ret.matches) = Cardinality(QlpInitLinesOf(log))
        /\ \A i \in 1..Len(ret.matches) :
            LET from == QlpNthInit(log, i)
                to == QlpNextInit(log, from)
            IN \A c \in Means :
                MapGet(maps[ret.matches[i].KillsByMeans], c)
                    = Cardinality({j \in QlpKillLinesIn(log, from, to) :
                                      log[j].event.killedBy = c})
====
